---------------------------- MODULE Spec2Model ----------------------------
(***************************************************************************)
(* A model of examples/FermiLATLike_example.ipynb: the helper doLAT (which *)
(* shells out to gtburst's doTimeResolvedLike), the two source cells, and  *)
(* the cell that links the attenuation parameters and runs the sampler.    *)
(*                                                                         *)
(* A Python string is a "text": a sequence of fragments.  Every fragment   *)
(* that slicing or splitting looks at (a digit, ".", ",", " ", "'") is a   *)
(* single character; a literal that is only ever copied is one fragment.   *)
(* A float is a record [i, f] of its integer part and its millionths (3.03 *)
(* is [i |-> 3, f |-> 30000]), so that '%s' formatting and the external    *)
(* tool's float() are real conversions.                                    *)
(***************************************************************************)
EXTENDS Integers, Sequences, FiniteSets, TLC

\* ------------------------------------------------------------------ bounds

\* Longest TSTARTS / TSTOPS array handed to doLAT by the direct-call harness.
MaxLen == 2

\* Likelihood evaluations the sampler makes before it finishes.
MaxSamples == 2

\* ----------------------------------------------------------- general helpers

Range(s) == {s[i] : i \in 1..Len(s)}

SeqsUpTo(S, n) == UNION {[1..k -> S] : k \in 0..n}

Min(a, b) == IF a <= b THEN a ELSE b

\* -------------------------------------------------- '%s' formatting (Python)

DigitChars == <<"0", "1", "2", "3", "4", "5", "6", "7", "8", "9">>

RECURSIVE FmtInt(_)
\* '%s' % n for a non-negative int: its decimal digits.
FmtInt(n) == IF n < 10 THEN <<DigitChars[n + 1]>>
             ELSE FmtInt(n \div 10) \o <<DigitChars[(n % 10) + 1]>>

RECURSIVE StripZeros(_)
\* The fractional digits without trailing zeros, one digit at least.
StripZeros(ds) == IF Len(ds) > 1 /\ ds[Len(ds)] = "0"
                  THEN StripZeros(SubSeq(ds, 1, Len(ds) - 1))
                  ELSE ds

\* '%s' % x for a float x >= 0 with at most six decimals: '3.03', '5.0'.
FmtFloat(x) ==
    LET frac == [k \in 1..6 |-> DigitChars[((x.f \div (10^(6 - k))) % 10) + 1]]
    IN  FmtInt(x.i) \o <<".">> \o StripZeros(frac)

\* ------------------------------------------- float() and split (the tool)

DigitVal(c) == CHOOSE d \in 0..9 : DigitChars[d + 1] = c

RECURSIVE ParseInt(_)
ParseInt(ds) == IF ds = <<>> THEN 0
                ELSE 10 * ParseInt(SubSeq(ds, 1, Len(ds) - 1)) + DigitVal(ds[Len(ds)])

\* The position of the first fragment c in text t, 0 when there is none.
Find(t, c) == IF \E i \in 1..Len(t) : t[i] = c
              THEN CHOOSE i \in 1..Len(t) : t[i] = c /\ \A j \in 1..(i - 1) : t[j] # c
              ELSE 0

\* float(t) for a text of digits with at most one ".".
ParseFloat(t) ==
    LET dot  == Find(t, ".")
        ip   == IF dot = 0 THEN t ELSE SubSeq(t, 1, dot - 1)
        fp   == IF dot = 0 THEN <<>> ELSE SubSeq(t, dot + 1, Len(t))
        fp6  == [k \in 1..6 |-> IF k <= Len(fp) THEN fp[k] ELSE "0"]
    IN  [i |-> ParseInt(ip), f |-> ParseInt(fp6)]

RECURSIVE Split(_, _)
\* t.split(c): the pieces of t between the fragments c.
Split(t, c) ==
    LET at == Find(t, c)
    IN  IF at = 0 THEN <<t>>
        ELSE <<SubSeq(t, 1, at - 1)>> \o Split(SubSeq(t, at + 1, Len(t)), c)

\* t without the fragments c (quote removal by the shell, strip of blanks).
Without(t, c) == SelectSeq(t, LAMBDA x : x # c)

\* The list of floats the tool reads from a --tstarts / --tstops value:
\* the shell drops the quotes, the tool splits on "," and calls float().
ParseTimes(v) ==
    LET body   == Without(v, "'")
        pieces == IF body = <<>> THEN <<>> ELSE Split(body, ",")
    IN  [i \in 1..Len(pieces) |-> ParseFloat(Without(pieces[i], " "))]

\* ------------------------------------------------------ the shell's view

\* The members of a finite set of integers, in increasing order.
Sorted(S) ==
    LET rank == [x \in S |-> Cardinality({y \in S : y < x})]
    IN  [k \in 1..Cardinality(S) |-> CHOOSE x \in S : rank[x] = k - 1]

\* Word splitting as the shell does it: a blank outside single quotes ends a
\* word, the quotes themselves are dropped, '' is an empty word.
ShellWords(t) ==
    LET quotes == {j \in 1..Len(t) : t[j] = "'"}
        seps   == {i \in 1..Len(t) :
                      t[i] = " " /\ Cardinality({j \in quotes : j < i}) % 2 = 0}
        cuts   == <<0>> \o Sorted(seps) \o <<Len(t) + 1>>
        pieces == [k \in 1..(Len(cuts) - 1) |-> SubSeq(t, cuts[k] + 1, cuts[k + 1] - 1)]
        words  == SelectSeq(pieces, LAMBDA w : w # <<>>)
    IN  [k \in 1..Len(words) |-> SelectSeq(words[k], LAMBDA c : c # "'")]

\* Whether word w of a command line is a named argument, and its name.
IsOption(w) == Len(w) = 2 /\ w[1] = "--"

\* The word that follows --name in argv (the empty word when there is none).
OptionValue(argv, name) ==
    LET at == {i \in 1..(Len(argv) - 1) : argv[i] = <<"--", name>>}
    IN  IF at = {} THEN <<>> ELSE argv[(CHOOSE i \in at : \A j \in at : i <= j) + 1]

\* ------------------------------------------------------- program constants

\* The two bursts of the source cells: what each cell assigns to
\* trigger_id, ra, dec, redshift, index, tstart, tstop.
GRB(n) ==
    IF n = 1
    THEN [trigger_id |-> "bn080916009", ra |-> <<"119.889999">>, dec |-> <<"-56.700001">>,
          redshift |-> "4.350", index |-> "-2.072603",
          tstart |-> [i |-> 3, f |-> 30000], tstop |-> [i |-> 1531, f |-> 780029]]
    ELSE [trigger_id |-> "bn090102122", ra |-> <<"127.559998">>, dec |-> <<"33.459999">>,
          redshift |-> "1.547", index |-> "-0.062906",
          tstart |-> [i |-> 3915, f |-> 889893], tstop |-> [i |-> 4404, f |-> 799805]]

\* doLAT's keyword defaults; no call of the notebook overrides them.
ROI == [i |-> 5, f |-> 0]
ZMAX == 105
EMIN == 65
EMAX == 100000
IRF == "p8_transient010e"
data_path == "./"

\* The program doLAT runs.
Script == "$CONDA_PREFIX/lib/python2.7/site-packages/fermitools/GtBurst/scripts/doTimeResolvedLike.py"

\* The order in which Python 2.7 iterates the args dict, as the cells' printed
\* command lines show it.
HashOrder ==
    <<"tstops", "zmax", "roi", "emax", "flemax", "thetamax", "particle_model",
      "datarepository", "galactic_model", "strategy", "tsmin", "optimizeposition",
      "ra", "fgl_mode", "irf", "spectralfiles", "outfile", "liketype", "flemin",
      "tstarts", "emin", "dec">>

\* The suffixes of the three files a source cell looks for.
Kinds == {"_filt.fit", "_filt_expomap.fit", "_filt_ltcube.fit"}

\* Interval boundaries the direct-call harness draws TSTARTS / TSTOPS from.
Times == {[i |-> 3, f |-> 30000], [i |-> 1531, f |-> 780029]}

\* ------------------------------------------------------------------ state

VARIABLES
    pc,            \* notebook: index of the next statement of Program (0: no run)
    err,           \* the uncaught exception that stopped the run ("" for none)
    g,             \* notebook globals assigned by the source cells
    srcs,          \* source_1, source_2: the PointSource objects built
    plugins,       \* lat_plugin_1, lat_plugin_2: the FermiLATLike objects built
    model,         \* the Model object: its sources and its links
    pval,          \* the stored value of every parameter of every source
    bayes,         \* the BayesianAnalysis object
    log,           \* history: the notebook-level operations done, in order
    dpc,           \* doLAT: the next line of the running call ("idle": no call)
    din,           \* doLAT: the arguments of the running call
    analysis_dir,  \* doLAT local
    args,          \* doLAT local: the dict
    TSTARTS_str,   \* doLAT local
    TSTOPS_str,    \* doLAT local
    zi,            \* doLAT: pairs the zip loop has consumed
    exe,           \* doLAT local: the command line
    ret,           \* the value the last doLAT call returned
    cwd,           \* the process working directory, below the starting directory
    dirs,          \* the directories that exist below the starting directory
    files,         \* the files that exist below the starting directory
    proc           \* the external command: none, running or exited

nbvars  == <<pc, g, srcs, plugins, model, pval, bayes>>
latvars == <<dpc, din, analysis_dir, args, TSTARTS_str, TSTOPS_str, zi, exe, ret>>
osvars  == <<cwd, dirs, files, proc>>
vars    == <<nbvars, err, log, latvars, osvars>>

\* ------------------------------------------------------------- file system

\* A relative name resolved from a working directory.
Resolve(wd, name) == Append(wd, name)

\* 'interval%s-%s' % (t0, t1): the directory of one time interval.
IntervalName(t0, t1) == <<"interval">> \o FmtFloat(t0) \o <<"-">> \o FmtFloat(t1)

\* '%s_analysis_%s-%s' % (OUTFILE, EMIN, EMAX)
AnalysisDirName(OUTFILE, emin, emax) ==
    <<OUTFILE, "_analysis_">> \o FmtInt(emin) \o <<"-">> \o FmtInt(emax)

RECURSIVE SetToSeq(_)
SetToSeq(S) == IF S = {} THEN <<>>
               ELSE LET x == CHOOSE y \in S : TRUE IN <<x>> \o SetToSeq(S \ {x})

\* A variant of Glob whose pattern is too wide: '<directory>/*'.
GlobAnyFile(wd, directory, suffix) ==
    SetToSeq({fl \in files : fl.dir = Resolve(wd, directory)})

\* glob.glob('<directory>/*<suffix>') from working directory wd.
Glob(wd, directory, suffix) ==
    SetToSeq({fl \in files : /\ fl.dir = Resolve(wd, directory)
                             /\ fl.name[Len(fl.name)] = suffix})

\* ------------------------------------------------------------------- dicts

EmptyDict == [k \in {} |-> <<>>]

\* d[k] = v
DictSet(d, k, v) == [x \in DOMAIN d \cup {k} |-> IF x = k THEN v ELSE d[x]]

\* d.items(): the keys in hash order (any key outside it last).
Items(d) ==
    LET keys == SelectSeq(HashOrder, LAMBDA k : k \in DOMAIN d)
                  \o SetToSeq(DOMAIN d \ Range(HashOrder))
    IN  [n \in 1..Len(keys) |-> <<keys[n], d[keys[n]]>>]

\* -------------------------------------------------------------------- doLAT

NoProc == [state |-> "none", argv |-> <<>>, cwd |-> <<>>, status |-> 0]

NoCall == [OUTFILE |-> "", RA |-> <<>>, DEC |-> <<>>, TSTARTS |-> <<>>, TSTOPS |-> <<>>]

\* The state of a doLAT call that has just been entered.
Enter(call) ==
    /\ dpc' = "mkdir"
    /\ din' = call
    /\ analysis_dir' = <<>>
    /\ args' = EmptyDict
    /\ TSTARTS_str' = <<>>
    /\ TSTOPS_str' = <<>>
    /\ zi' = 0
    /\ exe' = <<>>
    /\ ret' = ret

\* analysis_dir = ...; os.system('mkdir -p %s' % analysis_dir).  The exit
\* status of mkdir is dropped; mkdir may fail (read-only or full disk).
DoLATMkdir ==
    /\ dpc = "mkdir" /\ err = ""
    /\ LET d == AnalysisDirName(din.OUTFILE, EMIN, EMAX)
       IN  /\ analysis_dir' = d
           /\ \E ok \in BOOLEAN :
                  dirs' = IF ok THEN dirs \cup {Resolve(cwd, d)} ELSE dirs
    /\ dpc' = "chdir"
    /\ UNCHANGED <<nbvars, err, log, din, args, TSTARTS_str, TSTOPS_str, zi, exe, ret,
                   cwd, files, proc>>

\* os.chdir(analysis_dir): OSError when the directory is not there.
DoLATChdir ==
    /\ dpc = "chdir" /\ err = ""
    /\ IF Resolve(cwd, analysis_dir) \in dirs
       THEN /\ cwd' = Resolve(cwd, analysis_dir)
            /\ dpc' = "args"
            /\ err' = err
       ELSE /\ cwd' = cwd
            /\ dpc' = "idle"
            /\ err' = "OSError"
    /\ UNCHANGED <<nbvars, log, din, analysis_dir, args, TSTARTS_str, TSTOPS_str, zi,
                   exe, ret, dirs, files, proc>>

\* exe = ...; args = {}; args['outfile'], ['ra'], ['dec'], ['roi'];
\* TSTARTS_str = ''; TSTOPS_str = ''
DoLATArgs ==
    /\ dpc = "args" /\ err = ""
    /\ exe' = <<Script>>
    /\ args' = DictSet(DictSet(DictSet(DictSet(EmptyDict,
                   "outfile", <<din.OUTFILE>>),
                   "ra", din.RA),
                   "dec", din.DEC),
                   "roi", FmtFloat(ROI))
    /\ TSTARTS_str' = <<>>
    /\ TSTOPS_str' = <<>>
    /\ zi' = 0
    /\ dpc' = "zip"
    /\ UNCHANGED <<nbvars, err, log, din, analysis_dir, ret, osvars>>

\* for t0, t1 in zip(TSTARTS, TSTOPS): one pass of the loop, or its end.
DoLATZip ==
    /\ dpc = "zip" /\ err = ""
    /\ IF zi < Min(Len(din.TSTARTS), Len(din.TSTOPS))
       THEN /\ TSTARTS_str' = TSTARTS_str \o FmtFloat(din.TSTARTS[zi + 1]) \o <<",", " ">>
            /\ TSTOPS_str' = TSTOPS_str \o FmtFloat(din.TSTOPS[zi + 1]) \o <<",", " ">>
            /\ zi' = zi + 1
            /\ dpc' = dpc
       ELSE /\ UNCHANGED <<TSTARTS_str, TSTOPS_str, zi>>
            /\ dpc' = "strip"
    /\ UNCHANGED <<nbvars, err, log, din, analysis_dir, args, exe, ret, osvars>>

\* A variant of DropLast2 that strips one character only: s[:-1].
DropLast1(s) == SubSeq(s, 1, Len(s) - 1)

\* s[:-2]
DropLast2(s) == SubSeq(s, 1, Len(s) - 2)

\* "'%s'" % s
Quoted(s) == <<"'">> \o s \o <<"'">>

\* The dict after lines TSTARTS_str = TSTARTS_str[:-2] ... args['fgl_mode'].
RestOfArgs(d, starts, stops) ==
    LET a1  == DictSet(d,   "tstarts", Quoted(DropLast2(starts)))
        a2  == DictSet(a1,  "tstops", Quoted(DropLast2(stops)))
        a3  == DictSet(a2,  "zmax", FmtInt(ZMAX))
        a4  == DictSet(a3,  "emin", FmtInt(EMIN))
        a5  == DictSet(a4,  "emax", FmtInt(EMAX))
        a6  == DictSet(a5,  "irf", <<IRF>>)
        a7  == DictSet(a6,  "galactic_model", Quoted(<<"template (fixed norm.)">>))
        a8  == DictSet(a7,  "particle_model", Quoted(<<"isotr template">>))
        a9  == DictSet(a8,  "tsmin", FmtInt(25))
        a10 == DictSet(a9,  "strategy", <<"time">>)
        a11 == DictSet(a10, "thetamax", FmtInt(180))
        a12 == DictSet(a11, "spectralfiles", <<"yes">>)
        a13 == DictSet(a12, "liketype", <<"unbinned">>)
        a14 == DictSet(a13, "optimizeposition", <<"no">>)
        a15 == DictSet(a14, "datarepository", <<data_path>>)
        a16 == DictSet(a15, "flemin", FmtFloat([i |-> 100, f |-> 0]))
        a17 == DictSet(a16, "flemax", FmtInt(10000))
    IN  DictSet(a17, "fgl_mode", <<"fast">>)

DoLATStrip ==
    /\ dpc = "strip" /\ err = ""
    /\ TSTARTS_str' = DropLast2(TSTARTS_str)
    /\ TSTOPS_str' = DropLast2(TSTOPS_str)
    /\ args' = RestOfArgs(args, TSTARTS_str, TSTOPS_str)
    /\ dpc' = "exe"
    /\ UNCHANGED <<nbvars, err, log, din, analysis_dir, zi, exe, ret, osvars>>

RECURSIVE AddItems(_, _)
\* for k, i in args.items(): exe += ' --%s %s' % (k, i)
AddItems(cmd, items) ==
    IF items = <<>> THEN cmd
    ELSE AddItems(cmd \o <<" ", "--", Head(items)[1], " ">> \o Head(items)[2], Tail(items))

\* A variant of CommandLine whose loop misses the first item of the dict.
CommandLineSkipsFirst(cmd, d, triggername) ==
    AddItems(cmd, Tail(Items(d))) \o <<" ", triggername>>

\* The command line: every item of the dict, then the trigger name.
CommandLine(cmd, d, triggername) == AddItems(cmd, Items(d)) \o <<" ", triggername>>

DoLATExe ==
    /\ dpc = "exe" /\ err = ""
    /\ exe' = CommandLine(exe, args, din.OUTFILE)
    /\ dpc' = "system"
    /\ UNCHANGED <<nbvars, err, log, din, analysis_dir, args, TSTARTS_str, TSTOPS_str,
                   zi, ret, osvars>>

\* os.system(exe): the shell splits the command line into words and starts
\* the command in the working directory.
DoLATSystem ==
    /\ dpc = "system" /\ err = ""
    /\ proc' = [state |-> "running", argv |-> ShellWords(exe), cwd |-> cwd, status |-> 0]
    /\ log' = Append(log, [op |-> "exec", arg |-> din.OUTFILE])
    /\ dpc' = "wait"
    /\ UNCHANGED <<nbvars, err, din, analysis_dir, args, TSTARTS_str, TSTOPS_str, zi,
                   exe, ret, cwd, dirs, files>>

\* The intervals the tool reads from its arguments.
ToolIntervals(argv) ==
    LET t0s == ParseTimes(OptionValue(argv, "tstarts"))
        t1s == ParseTimes(OptionValue(argv, "tstops"))
    IN  [n \in 1..Min(Len(t0s), Len(t1s)) |-> <<t0s[n], t1s[n]>>]

\* The directories the tool writes to: one per interval, below the
\* directory it was started in.
ToolDirs(p) ==
    LET iv == ToolIntervals(p.argv)
    IN  {Resolve(p.cwd, IntervalName(iv[n][1], iv[n][2])) : n \in 1..Len(iv)}

\* The external command ends: with any exit status, having written any of
\* the three files into the directory of each interval.
ExtFinish ==
    /\ proc.state = "running"
    /\ LET idir == ToolDirs(proc)
       IN  \E st \in {0, 1}, made \in SUBSET Kinds :
              /\ proc' = [proc EXCEPT !.state = "exited", !.status = st]
              /\ dirs' = IF made = {} THEN dirs ELSE dirs \cup idir
              /\ files' = files \cup {[dir |-> d, name |-> <<"gll_ft1_tr", k>>] :
                                         d \in idir, k \in made}
    /\ UNCHANGED <<nbvars, err, log, latvars, cwd>>

\* A variant of OsSystemReturns for a call that does not wait (a command
\* started in the background).
OsSystemNoWait == TRUE

\* os.system returns only when the command has ended.
OsSystemReturns == proc.state = "exited"

\* A variant of DoLATWait that checks the exit status, as
\* subprocess.check_call would.
DoLATWaitChecked ==
    /\ dpc = "wait" /\ err = ""
    /\ proc.state = "exited"
    /\ IF proc.status = 0
       THEN dpc' = "return" /\ err' = err
       ELSE dpc' = "idle" /\ err' = "CalledProcessError"
    /\ UNCHANGED <<nbvars, log, din, analysis_dir, args, TSTARTS_str, TSTOPS_str,
                   zi, exe, ret, osvars>>

\* os.system(exe) returns; its value, the exit status, is dropped.
DoLATWait ==
    /\ dpc = "wait" /\ err = ""
    /\ OsSystemReturns
    /\ dpc' = "return"
    /\ UNCHANGED <<nbvars, err, log, din, analysis_dir, args, TSTARTS_str, TSTOPS_str,
                   zi, exe, ret, osvars>>

\* A variant of DoLATReturn that goes back to the directory of the caller
\* before it returns.
DoLATReturnRestoring ==
    /\ dpc = "return" /\ err = ""
    /\ ret' = analysis_dir
    /\ dpc' = "idle"
    /\ pc' = IF pc > 0 THEN pc + 1 ELSE pc
    /\ cwd' = SubSeq(cwd, 1, Len(cwd) - 1)
    /\ log' = Append(log, [op |-> "doLAT", arg |-> din.OUTFILE])
    /\ UNCHANGED <<g, srcs, plugins, model, pval, bayes, err, din, analysis_dir, args,
                   TSTARTS_str, TSTOPS_str, zi, exe, dirs, files, proc>>

\* return analysis_dir.  A call made by a cell goes on with the next statement.
DoLATReturn ==
    /\ dpc = "return" /\ err = ""
    /\ ret' = analysis_dir
    /\ dpc' = "idle"
    /\ pc' = IF pc > 0 THEN pc + 1 ELSE pc
    /\ log' = Append(log, [op |-> "doLAT", arg |-> din.OUTFILE])
    /\ UNCHANGED <<g, srcs, plugins, model, pval, bayes, err, din, analysis_dir, args,
                   TSTARTS_str, TSTOPS_str, zi, exe, cwd, dirs, files, proc>>

DoLATNext ==
    \/ DoLATMkdir
    \/ DoLATChdir
    \/ DoLATArgs
    \/ DoLATZip
    \/ DoLATStrip
    \/ DoLATExe
    \/ DoLATSystem
    \/ ExtFinish
    \/ DoLATWait
    \/ DoLATReturn

\* ------------------------------------------ doLAT called with any arguments

NoModel == [built |-> FALSE, sources |-> {}, links |-> {}]

NoBayes ==
    [built |-> FALSE, data |-> {}, free |-> {}, priors |-> {}, sampler |-> "",
     samples |-> 0, done |-> FALSE, results |-> <<>>]

NoGlobals ==
    [trigger_id |-> "", ra |-> <<>>, dec |-> <<>>, redshift |-> "", index |-> "",
     tstart |-> [i |-> 0, f |-> 0], tstop |-> [i |-> 0, f |-> 0],
     ft2File |-> <<>>, directory |-> <<>>,
     eventFile |-> <<>>, expomap |-> <<>>, ltcube |-> <<>>]

\* A fresh kernel in a fresh directory.
FreshInit ==
    /\ err = ""
    /\ g = NoGlobals
    /\ srcs = <<>>
    /\ plugins = <<>>
    /\ model = NoModel
    /\ pval = <<>>
    /\ bayes = NoBayes
    /\ log = <<>>
    /\ ret = <<>>
    /\ cwd = <<>>
    /\ proc = NoProc

\* One call doLAT(OUTFILE, RA, DEC, TSTARTS, TSTOPS) with the defaults.
InitDoLAT ==
    /\ FreshInit
    /\ pc = 0
    /\ dirs = {<<>>}
    /\ files = {}
    /\ dpc = "mkdir"
    /\ \E n \in 1..2, t0s \in SeqsUpTo(Times, MaxLen), t1s \in SeqsUpTo(Times, MaxLen) :
          din = [OUTFILE |-> GRB(n).trigger_id, RA |-> GRB(n).ra, DEC |-> GRB(n).dec,
                 TSTARTS |-> t0s, TSTOPS |-> t1s]
    /\ analysis_dir = <<>>
    /\ args = EmptyDict
    /\ TSTARTS_str = <<>>
    /\ TSTOPS_str = <<>>
    /\ zi = 0
    /\ exe = <<>>

SpecDoLAT == InitDoLAT /\ [][DoLATNext]_vars

\* ---------------------------------------------------------- the notebook

St(op, n) == [op |-> op, n |-> n, var |-> "", suffix |-> ""]

GlobSt(n, var, suffix) == [op |-> "glob", n |-> n, var |-> var, suffix |-> suffix]

\* The statements of one source cell, in the order the cell lists them.
SourceCell(n) ==
    << St("assign", n),
       St("createSrcModel", n),
       St("doLAT", n),
       St("paths", n),
       GlobSt(n, "eventFile", "_filt.fit"),
       GlobSt(n, "expomap", "_filt_expomap.fit"),
       GlobSt(n, "ltcube", "_filt_ltcube.fit"),
       St("FermiLATLike", n) >>

\* The statements of the cell that links, fits and of the two cells after it.
FitCells ==
    << St("Model", 0),
       St("link", 0),
       St("set_model", 1),
       St("set_model", 2),
       St("DataList", 0),
       St("BayesianAnalysis", 0),
       St("set_uninformative_prior", 0),
       St("set_sampler", 0),
       St("sample", 0),
       St("display", 0),
       St("plot_spectra", 0) >>

\* A variant of Program with the two source cells in the other order.
ProgramCellsSwapped == SourceCell(2) \o SourceCell(1) \o FitCells

\* A run of the notebook: its code cells from top to bottom.
Program == SourceCell(1) \o SourceCell(2) \o FitCells

\* The notebook is about to run a statement with operation op.
At(op) ==
    /\ pc \in 1..Len(Program)
    /\ Program[pc].op = op
    /\ err = ""
    /\ dpc = "idle"

Done(op, arg) == log' = Append(log, [op |-> op, arg |-> arg])

\* The names of the cells' numbered variables: source_1, lat_plugin_2, ...
SourceVar(n) == IF n = 1 THEN "source_1" ELSE "source_2"
PluginVar(n) == IF n = 1 THEN "lat_plugin_1" ELSE "lat_plugin_2"

\* trigger_id = ...; ra, dec, redshift, index, tstart, tstop = ...
Assign ==
    /\ At("assign")
    /\ LET b == GRB(Program[pc].n)
       IN  g' = [g EXCEPT !.trigger_id = b.trigger_id, !.ra = b.ra, !.dec = b.dec,
                          !.redshift = b.redshift, !.index = b.index,
                          !.tstart = b.tstart, !.tstop = b.tstop]
    /\ pc' = pc + 1
    /\ Done("assign", g'.trigger_id)
    /\ UNCHANGED <<srcs, plugins, model, pval, bayes, err, latvars, osvars>>

\* Parameter values on a grid.  attenuation: the prior's range [0, 2], and
\* the initial value 1.  K: minus the decimal exponent, the prior's range
\* [1e-20, 1e-10], and the initial value 1.0 = 1e-0.
AttValues == {0, 1, 2}
KValues == {10, 20}
InitialValue(pname) == IF pname = "K_1" THEN 0 ELSE 1
ValuesOf(pname) == IF pname = "K_1" THEN KValues ELSE AttValues

\* createSrcModel(src_name, ra, dec, redshift, index): a point source whose
\* spectrum is powerlaw * ebl, with index_1 fixed and K_1, attenuation_2 free.
PointSource(src_name, ra, dec, redshift, index) ==
    [name |-> src_name, ra |-> ra, dec |-> dec, redshift_2 |-> redshift,
     index_1 |-> index, free |-> {"K_1", "attenuation_2"}]

CreateSrcModel ==
    /\ At("createSrcModel")
    /\ LET src == PointSource(g.trigger_id, g.ra, g.dec, g.redshift, g.index)
           new == {<<src.name, pn>> : pn \in src.free}
       IN  /\ srcs' = (SourceVar(Program[pc].n) :> src) @@ srcs
           /\ pval' = [p \in DOMAIN pval \cup new |->
                          IF p \in new THEN InitialValue(p[2]) ELSE pval[p]]
    /\ pc' = pc + 1
    /\ Done("createSrcModel", g.trigger_id)
    /\ UNCHANGED <<g, plugins, model, bayes, err, latvars, osvars>>

\* doLAT(trigger_id, ra, dec, [tstart], [tstop]): the call; the statement is
\* done when the call returns.
CallDoLAT ==
    /\ At("doLAT")
    /\ Enter([OUTFILE |-> g.trigger_id, RA |-> g.ra, DEC |-> g.dec,
              TSTARTS |-> <<g.tstart>>, TSTOPS |-> <<g.tstop>>])
    /\ UNCHANGED <<nbvars, err, log, osvars>>

\* ft2File = ...; directory = '%s/interval%s-%s/' % ('.', tstart, tstop)
Paths ==
    /\ At("paths")
    /\ g' = [g EXCEPT
               !.ft2File = <<"${HOME}/FermiData", "/", g.trigger_id, "/gll_ft2_tr_",
                             g.trigger_id, "_v00.fit">>,
               !.directory = <<".", "/">> \o IntervalName(g.tstart, g.tstop) \o <<"/">>]
    /\ pc' = pc + 1
    /\ Done("paths", g.trigger_id)
    /\ UNCHANGED <<srcs, plugins, model, pval, bayes, err, latvars, osvars>>

\* The directory a './name/' text names.
DirectoryName(text) == SubSeq(text, 3, Len(text) - 1)

\* var = glob.glob("%s/*<suffix>" % directory)[0]: the first match, or an
\* IndexError that nothing catches.
GlobStmt ==
    /\ At("glob")
    /\ LET st    == Program[pc]
           found == Glob(cwd, DirectoryName(g.directory), st.suffix)
       IN  IF found = <<>>
           THEN /\ err' = "IndexError"
                /\ UNCHANGED <<pc, g, log>>
           ELSE /\ g' = [g EXCEPT ![st.var] = g.directory \o <<"/">> \o found[1].name]
                /\ pc' = pc + 1
                /\ err' = err
                /\ Done("glob", g.trigger_id)
    /\ UNCHANGED <<srcs, plugins, model, pval, bayes, latvars, osvars>>

\* A variant of FermiLATLike built without the source_name keyword.
FermiLATLikeNoSourceName(name, eventFile, ft2File, ltcube, kind, expomap, source_name) ==
    [name |-> name, eventFile |-> eventFile, ft2File |-> ft2File, ltcube |-> ltcube,
     kind |-> kind, expomap |-> expomap, source_name |-> "",
     model_sources |-> {}]

\* FermiLATLike(name, eventFile, ft2File, ltcube, kind, expomap, source_name=...)
FermiLATLike(name, eventFile, ft2File, ltcube, kind, expomap, source_name) ==
    [name |-> name, eventFile |-> eventFile, ft2File |-> ft2File, ltcube |-> ltcube,
     kind |-> kind, expomap |-> expomap, source_name |-> source_name,
     model_sources |-> {}]

\* lat_plugin_n = FermiLATLike(trigger_id, ..., source_name = trigger_id)
MakePlugin ==
    /\ At("FermiLATLike")
    /\ plugins' = (PluginVar(Program[pc].n) :>
                      FermiLATLike(g.trigger_id, g.eventFile, g.ft2File, g.ltcube,
                                   "unbinned", g.expomap, g.trigger_id)) @@ plugins
    /\ pc' = pc + 1
    /\ Done("FermiLATLike", g.trigger_id)
    /\ UNCHANGED <<g, srcs, model, pval, bayes, err, latvars, osvars>>

\* model = Model(source_1, source_2)
MakeModel ==
    /\ At("Model")
    /\ model' = [built |-> TRUE,
                 sources |-> {srcs["source_1"].name, srcs["source_2"].name},
                 links |-> {}]
    /\ pc' = pc + 1
    /\ Done("Model", "")
    /\ UNCHANGED <<g, srcs, plugins, pval, bayes, err, latvars, osvars>>

\* A variant of LinkArgs that names the wrong parameter of the second source.
LinkArgsWrongParameter == << <<"bn080916009", "attenuation_2">>, <<"bn090102122", "K_1">> >>

\* The two parameters the notebook hands to model.link, in its order.
LinkArgs == << <<"bn080916009", "attenuation_2">>, <<"bn090102122", "attenuation_2">> >>

\* model.link(p1, p2): from now on p1 takes the value of p2.
Link ==
    /\ At("link")
    /\ model' = [model EXCEPT !.links = @ \cup {LinkArgs}]
    /\ pc' = pc + 1
    /\ Done("link", "")
    /\ UNCHANGED <<g, srcs, plugins, pval, bayes, err, latvars, osvars>>

\* The parameter that p is linked to, p itself when it is not linked.
Target(p) == IF \E l \in model.links : l[1] = p
             THEN (CHOOSE l \in model.links : l[1] = p)[2]
             ELSE p

\* The value a parameter has: that of the parameter it is linked to.
Value(p) == pval[Target(p)]

\* The model's free parameters: free in their source and not linked.
FreeParameters ==
    {p \in DOMAIN pval : p[1] \in model.sources /\ Target(p) = p}

\* lat_plugin_n.set_model(model): the plugin keeps the model; a plugin
\* restricted to a source the model does not hold is refused.
SetModel ==
    /\ At("set_model")
    /\ LET v == PluginVar(Program[pc].n)
       IN  IF plugins[v].source_name \in model.sources
           THEN /\ plugins' = [plugins EXCEPT ![v].model_sources = model.sources]
                /\ pc' = pc + 1
                /\ err' = err
                /\ Done("set_model", plugins[v].name)
           ELSE /\ err' = "AssertionError"
                /\ UNCHANGED <<plugins, pc, log>>
    /\ UNCHANGED <<g, srcs, model, pval, bayes, latvars, osvars>>

\* datalist = DataList(lat_plugin_1, lat_plugin_2)
MakeDataList ==
    /\ At("DataList")
    /\ bayes' = [bayes EXCEPT !.data = {plugins["lat_plugin_1"].name,
                                         plugins["lat_plugin_2"].name}]
    /\ pc' = pc + 1
    /\ Done("DataList", "")
    /\ UNCHANGED <<g, srcs, plugins, model, pval, err, latvars, osvars>>

\* bayes = BayesianAnalysis(model, datalist)
MakeBayes ==
    /\ At("BayesianAnalysis")
    /\ bayes' = [bayes EXCEPT !.built = TRUE, !.free = FreeParameters]
    /\ pc' = pc + 1
    /\ Done("BayesianAnalysis", "")
    /\ UNCHANGED <<g, srcs, plugins, model, pval, err, latvars, osvars>>

\* for name in [...]: getattr(bayes.likelihood_model, ...).set_uninformative_prior
\* The nuisance parameters carry the name of their plugin.
SetPriors ==
    /\ At("set_uninformative_prior")
    /\ IF {"bn080916009", "bn090102122"} \subseteq bayes.data
       THEN /\ bayes' = [bayes EXCEPT !.priors = {"bn080916009", "bn090102122"}]
            /\ pc' = pc + 1
            /\ err' = err
            /\ Done("set_uninformative_prior", "")
       ELSE /\ err' = "AttributeError"
            /\ UNCHANGED <<bayes, pc, log>>
    /\ UNCHANGED <<g, srcs, plugins, model, pval, latvars, osvars>>

\* bayes.set_sampler('ultranest'); bayes.sampler.setup()
SetSampler ==
    /\ At("set_sampler")
    /\ bayes' = [bayes EXCEPT !.sampler = "ultranest"]
    /\ pc' = pc + 1
    /\ Done("set_sampler", "")
    /\ UNCHANGED <<g, srcs, plugins, model, pval, err, latvars, osvars>>

\* bayes.sample: one step of the sampler gives every free parameter a trial
\* value and evaluates the likelihood.
SampleStep ==
    /\ At("sample")
    /\ bayes.samples < MaxSamples
    /\ \E trial \in [bayes.free -> AttValues \cup KValues] :
          /\ \A p \in bayes.free : trial[p] \in ValuesOf(p[2])
          /\ pval' = [p \in DOMAIN pval |-> IF p \in bayes.free THEN trial[p] ELSE pval[p]]
    /\ bayes' = [bayes EXCEPT !.samples = @ + 1]
    /\ UNCHANGED <<pc, g, srcs, plugins, model, err, log, latvars, osvars>>

\* bayes.sample returns: the results hold one value per free parameter.
SampleDone ==
    /\ At("sample")
    /\ bayes.samples > 0
    /\ bayes' = [bayes EXCEPT !.done = TRUE,
                              !.results = [p \in bayes.free |-> Value(p)]]
    /\ pc' = pc + 1
    /\ Done("sample", "")
    /\ UNCHANGED <<g, srcs, plugins, model, pval, err, latvars, osvars>>

\* bayes.results.display()
Display ==
    /\ At("display")
    /\ pc' = pc + 1
    /\ Done("display", "")
    /\ UNCHANGED <<g, srcs, plugins, model, pval, bayes, err, latvars, osvars>>

\* fig = plot_spectra(bayes.results, ...); fig.show()
Plot ==
    /\ At("plot_spectra")
    /\ pc' = pc + 1
    /\ Done("plot_spectra", "")
    /\ UNCHANGED <<g, srcs, plugins, model, pval, bayes, err, latvars, osvars>>

\* The absolute analysis directory of the n-th doLAT call of a run.
RunDir(n) ==
    [k \in 1..n |-> AnalysisDirName(GRB(k).trigger_id, EMIN, EMAX)]

\* The directory the n-th source cell looks for its files in.
RunIntervalDir(n) == Resolve(RunDir(n), IntervalName(GRB(n).tstart, GRB(n).tstop))

\* A run from a fresh kernel.  The starting directory is fresh, or holds what
\* an earlier run left behind: its analysis directories and any of its files.
Init ==
    /\ FreshInit
    /\ pc = 1
    /\ dpc = "idle"
    /\ din = NoCall
    /\ analysis_dir = <<>>
    /\ args = EmptyDict
    /\ TSTARTS_str = <<>>
    /\ TSTOPS_str = <<>>
    /\ zi = 0
    /\ exe = <<>>
    /\ \E left \in 0..2, old \in [1..2 -> SUBSET Kinds] :
          /\ \A n \in 1..2 : n > left => old[n] = {}
          /\ dirs = {<<>>} \cup {RunDir(n) : n \in 1..left}
                           \cup {RunIntervalDir(n) : n \in {m \in 1..left : old[m] # {}}}
          /\ files = {[dir |-> RunIntervalDir(nk[1]), name |-> <<"gll_ft1_tr", nk[2]>>] :
                         nk \in {x \in (1..2) \X Kinds : x[2] \in old[x[1]]}}

Next ==
    \/ Assign
    \/ CreateSrcModel
    \/ CallDoLAT
    \/ DoLATNext
    \/ Paths
    \/ GlobStmt
    \/ MakePlugin
    \/ MakeModel
    \/ Link
    \/ SetModel
    \/ MakeDataList
    \/ MakeBayes
    \/ SetPriors
    \/ SetSampler
    \/ SampleStep
    \/ SampleDone
    \/ Display
    \/ Plot

Spec == Init /\ [][Next]_vars

\* ------------------------------------------------------------- properties

\* Where the log holds operation op with argument arg.
Positions(op, arg) == {i \in 1..Len(log) : log[i] = [op |-> op, arg |-> arg]}

Count(op, arg) == Cardinality(Positions(op, arg))

\* Operation a is in the log before every b that is in it.
Precedes(a, b) ==
    Positions(b[1], b[2]) # {} =>
        /\ Positions(a[1], a[2]) # {}
        /\ \A i \in Positions(a[1], a[2]), j \in Positions(b[1], b[2]) : i < j

Trigger(n) == GRB(n).trigger_id

\* The attenuation parameter of the n-th source.
Att(n) == <<Trigger(n), "attenuation_2">>

Attenuations(S) == {p \in S : p[2] = "attenuation_2"}

\* C1: once model.link has been called on the two attenuation parameters, the
\* two sources have the same attenuation value in every later state; the one
\* free attenuation parameter is the second source's, its stored value is the
\* value of both, and the results hold that single attenuation value.
C1_LinkedAttenuationShared ==
    Count("link", "") > 0 =>
        /\ Value(Att(1)) = Value(Att(2))
        /\ Value(Att(1)) = pval[Att(2)]
        /\ Attenuations(FreeParameters) = {Att(2)}
        /\ bayes.built => Attenuations(bayes.free) = {Att(2)}
        /\ bayes.done =>
              /\ Attenuations(DOMAIN bayes.results) = {Att(2)}
              /\ bayes.results[Att(2)] = Value(Att(1))
              /\ bayes.results[Att(2)] = Value(Att(2))

\* The sampler has moved the shared value away from its initial value and
\* the fit has reported it.
C1_Witness ==
    /\ Count("link", "") > 0
    /\ bayes.done
    /\ Value(Att(1)) = 2
    /\ Value(Att(2)) = 2

\* The named arguments as the specification lists them.
SpecArguments ==
    {"outfile", "ra", "dec", "roi", "tstarts", "tstops", "zmax", "emin", "emax", "irf",
     "galactic_model", "particle_model", "tsmin", "strategy", "thetamask",
     "spectralfiles", "liketype", "optimizeposition", "datarepository", "flemin",
     "flemax", "fgl_mode"}

\* The same list with thetamax in the place of thetamask.
CodeArguments == (SpecArguments \ {"thetamask"}) \cup {"thetamax"}

\* The command line argv is the program, then each name of S exactly once as
\* '--name value', then one positional word, and nothing else.
ExactlyTheArguments(argv, S) ==
    /\ Len(argv) = 2 * Cardinality(S) + 2
    /\ ~IsOption(argv[1])
    /\ ~IsOption(argv[Len(argv)])
    /\ \A k \in 1..Cardinality(S) : IsOption(argv[2 * k]) /\ ~IsOption(argv[2 * k + 1])
    /\ \A name \in S :
          Cardinality({i \in 1..Len(argv) : argv[i] = <<"--", name>>}) = 1
    /\ \A i \in 1..Len(argv) : IsOption(argv[i]) => argv[i][2] \in S

\* C2 as stated: the command line of every doLAT call holds exactly the
\* named arguments of the specification's list (with thetamask), each once.
C2_Original == proc.state # "none" => ExactlyTheArguments(proc.argv, SpecArguments)

\* C2, amended: the command line of every doLAT call holds exactly the named
\* arguments outfile, ra, dec, roi, tstarts, tstops, zmax, emin, emax, irf,
\* galactic_model, particle_model, tsmin, strategy, thetamax, spectralfiles,
\* liketype, optimizeposition, datarepository, flemin, flemax and fgl_mode,
\* each exactly once as '--name value', and no other named argument.
C2_NamedArguments ==
    /\ proc.state # "none" =>
          /\ ExactlyTheArguments(proc.argv, CodeArguments)
          /\ proc.argv[1] = <<Script>>
          /\ proc.argv[Len(proc.argv)] = <<din.OUTFILE>>
    /\ dpc \in {"system", "wait", "return"} => ExactlyTheArguments(ShellWords(exe), CodeArguments)

\* A command has been started for two intervals.
C2_Witness ==
    /\ proc.state = "running"
    /\ Len(din.TSTARTS) = 2
    /\ Len(din.TSTOPS) = 2

\* The step of the specification's list an operation belongs to (0: none).
Phase(op) ==
    CASE op = "exec" -> 1
      [] op = "glob" -> 2
      [] op \in {"createSrcModel", "Model"} -> 3
      [] op = "FermiLATLike" -> 4
      [] op = "link" -> 5
      [] op = "sample" -> 6
      [] op \in {"display", "plot_spectra"} -> 7
      [] OTHER -> 0

\* C3 as stated: the seven steps run in the listed order, each only after
\* all earlier ones; no source object is built before the external command.
C3_Original ==
    \A i, j \in 1..Len(log) :
        (i < j /\ Phase(log[i].op) > 0 /\ Phase(log[j].op) > 0)
            => Phase(log[i].op) <= Phase(log[j].op)

\* C3, amended: each source cell builds its source object first, then
\* invokes the external command, then discovers the three files, then builds
\* its plugin; the second source cell starts only after the first plugin is
\* built; only after both plugins are built the model is built, then the
\* parameters are linked, then the sampler is run, then the results are
\* displayed and then plotted.
C3_StatementOrder ==
    /\ \A n \in 1..2 :
          /\ Precedes(<<"createSrcModel", Trigger(n)>>, <<"exec", Trigger(n)>>)
          /\ Precedes(<<"exec", Trigger(n)>>, <<"doLAT", Trigger(n)>>)
          /\ Precedes(<<"doLAT", Trigger(n)>>, <<"glob", Trigger(n)>>)
          /\ Precedes(<<"glob", Trigger(n)>>, <<"FermiLATLike", Trigger(n)>>)
          /\ Count("FermiLATLike", Trigger(n)) > 0 => Count("glob", Trigger(n)) = 3
          /\ Count("createSrcModel", Trigger(n)) <= 1
          /\ Count("exec", Trigger(n)) <= 1
          /\ Count("FermiLATLike", Trigger(n)) <= 1
    /\ Precedes(<<"FermiLATLike", Trigger(1)>>, <<"createSrcModel", Trigger(2)>>)
    /\ Precedes(<<"FermiLATLike", Trigger(2)>>, <<"Model", "">>)
    /\ Precedes(<<"Model", "">>, <<"link", "">>)
    /\ Precedes(<<"link", "">>, <<"sample", "">>)
    /\ Precedes(<<"sample", "">>, <<"display", "">>)
    /\ Precedes(<<"display", "">>, <<"plot_spectra", "">>)

\* A whole run: the last cell has plotted.
C3_Witness == Count("plot_spectra", "") = 1 /\ pc = Len(Program) + 1

\* C4: whatever the exit status of the external command, doLAT invokes it
\* once and never again, raises nothing after it, returns the analysis
\* directory name, and the cell goes on to its file-discovery statements.
C4_ExitStatusIgnored ==
    /\ \A n \in 1..2 : Count("exec", Trigger(n)) <= 1
    /\ \A n \in 1..2 : Count("doLAT", Trigger(n)) > 0 => Count("exec", Trigger(n)) = 1
    /\ (err # "" /\ pc \in 1..Len(Program) /\ Program[pc].op = "doLAT")
          => Count("exec", g.trigger_id) = 0
    /\ (dpc = "wait" /\ proc.state = "exited") => ENABLED DoLATWait
    /\ (log # <<>> /\ log[Len(log)].op = "doLAT") =>
          /\ ret = AnalysisDirName(log[Len(log)].arg, EMIN, EMAX)
          /\ err = ""
          /\ At("paths")
          /\ ENABLED Paths

\* The external command has failed and the cell is at file discovery.
C4_Witness ==
    /\ At("paths")
    /\ proc.state = "exited"
    /\ proc.status = 1
    /\ Count("exec", g.trigger_id) = 1

\* The directory the statements of source cell n search, and whether it holds
\* a file for a pattern.
Holds(dir, suffix) == \E fl \in files : fl.dir = dir /\ fl.name[Len(fl.name)] = suffix

\* C5: a plugin exists only if each of the three patterns matched a file of
\* the interval directory; a pattern without a match raises IndexError, the
\* run stops at that statement and the plugin of that source is not created.
C5_MissingFileStopsCell ==
    /\ \A n \in 1..2 :
          PluginVar(n) \in DOMAIN plugins =>
              \A k \in Kinds : Holds(RunIntervalDir(n), k)
    /\ err = "IndexError" =>
          /\ pc \in 1..Len(Program)
          /\ Program[pc].op = "glob"
          /\ ~Holds(Resolve(cwd, DirectoryName(g.directory)), Program[pc].suffix)
          /\ PluginVar(Program[pc].n) \notin DOMAIN plugins
          /\ ~ENABLED Next
    /\ (At("glob") /\ ~Holds(Resolve(cwd, DirectoryName(g.directory)), Program[pc].suffix))
          => ~ENABLED MakePlugin

\* The event file was found, the exposure map was not: the cell has stopped.
C5_Witness ==
    /\ err = "IndexError"
    /\ pc \in 1..Len(Program)
    /\ Program[pc].var = "expomap"
    /\ Holds(Resolve(cwd, DirectoryName(g.directory)), "_filt.fit")

\* What holds while, and after, the external command runs.
C6_WhileRunning ==
    /\ proc.state = "running" =>
          /\ dpc = "wait"
          /\ pc \in 1..Len(Program) /\ Program[pc].op = "doLAT"
          /\ analysis_dir # <<>>
          /\ cwd = proc.cwd
          /\ cwd \in dirs
          /\ cwd[Len(cwd)] = analysis_dir
    /\ dpc \in {"mkdir", "chdir"} => proc.state # "running"
    /\ (log # <<>> /\ log[Len(log)].op = "doLAT") => proc.state = "exited"
    /\ (dpc = "idle" /\ err = "") => proc.state # "running"

\* C6: the external command is started only after the analysis directory has
\* been created and entered; doLAT does not return before the command has
\* ended; while the command runs, no statement of the notebook or of doLAT
\* takes a step.
C6_Blocking ==
    /\ []C6_WhileRunning
    /\ [][proc.state = "running" => UNCHANGED <<nbvars, err, log, latvars, cwd>>]_vars

\* The command of the second source cell is running.
C6_Witness ==
    /\ proc.state = "running"
    /\ din.OUTFILE = Trigger(2)
    /\ Len(cwd) = 2

RECURSIVE Join(_, _)
\* The texts ts with sep between them.
Join(ts, sep) == IF ts = <<>> THEN <<>>
                 ELSE IF Len(ts) = 1 THEN ts[1]
                 ELSE ts[1] \o sep \o Join(Tail(ts), sep)

\* C7: for TSTARTS and TSTOPS of the same length n >= 1, the tstarts and
\* tstops arguments are the n formatted times in input order, ', ' between
\* them and none after the last, in single quotes; read back, they are the
\* input arrays, so that the i-th start is paired with the i-th stop.
C7_IntervalLists ==
    (Len(din.TSTARTS) = Len(din.TSTOPS) /\ Len(din.TSTARTS) >= 1) =>
        /\ "tstarts" \in DOMAIN args =>
              /\ args["tstarts"] = <<"'">> \o Join([i \in 1..Len(din.TSTARTS) |->
                                       FmtFloat(din.TSTARTS[i])], <<",", " ">>) \o <<"'">>
              /\ args["tstops"] = <<"'">> \o Join([i \in 1..Len(din.TSTOPS) |->
                                       FmtFloat(din.TSTOPS[i])], <<",", " ">>) \o <<"'">>
              /\ ParseTimes(args["tstarts"]) = din.TSTARTS
              /\ ParseTimes(args["tstops"]) = din.TSTOPS
        /\ proc.state # "none" =>
              ToolIntervals(proc.argv) =
                  [i \in 1..Len(din.TSTARTS) |-> <<din.TSTARTS[i], din.TSTOPS[i]>>]

\* A command has been started for two different intervals.
C7_Witness ==
    /\ proc.state = "running"
    /\ Len(din.TSTARTS) = 2 /\ Len(din.TSTOPS) = 2
    /\ din.TSTARTS[1] # din.TSTARTS[2]
    /\ din.TSTOPS[1] # din.TSTOPS[2]

\* C8: each plugin is restricted to one source, lat_plugin_1 to bn080916009
\* and lat_plugin_2 to bn090102122, also after the second cell has reused
\* trigger_id; both names are sources of the model set on the plugins.
C8_PluginSources ==
    /\ \A n \in 1..2 :
          PluginVar(n) \in DOMAIN plugins =>
              /\ plugins[PluginVar(n)].source_name = Trigger(n)
              /\ Count("set_model", Trigger(n)) > 0 =>
                    /\ plugins[PluginVar(n)].model_sources = model.sources
                    /\ plugins[PluginVar(n)].source_name \in plugins[PluginVar(n)].model_sources
    /\ model.built => model.sources = {"bn080916009", "bn090102122"}
    /\ err # "AssertionError"

\* The model is set on both plugins, and trigger_id is the second source's.
C8_Witness ==
    /\ Count("set_model", Trigger(1)) = 1
    /\ Count("set_model", Trigger(2)) = 1
    /\ g.trigger_id = Trigger(2)
    /\ plugins["lat_plugin_1"].source_name = Trigger(1)

\* The doLAT calls that have entered their analysis directory.
Entered ==
    Count("doLAT", Trigger(1)) + Count("doLAT", Trigger(2))
        + (IF dpc \in {"args", "zip", "strip", "exe", "system", "wait", "return"} THEN 1 ELSE 0)

\* C9: doLAT enters the analysis directory created below the working
\* directory of the call and never leaves it: after k calls the working
\* directory is k analysis directories below the start (the second source's
\* inside the first's); the returned relative name does not resolve from the
\* directory doLAT leaves behind; the interval directory a cell searches
\* lies in the analysis directory of that cell's call.
C9_WorkingDirectory ==
    /\ cwd = RunDir(Entered)
    /\ Len(cwd) = Entered
    /\ (dpc = "idle" /\ ret # <<>>) =>
          /\ cwd[Len(cwd)] = ret
          /\ Resolve(cwd, ret) \notin dirs
          /\ Resolve(cwd, ret) # cwd
    /\ At("glob") =>
          /\ cwd = RunDir(Program[pc].n)
          /\ Resolve(cwd, DirectoryName(g.directory)) = RunIntervalDir(Program[pc].n)
          /\ ToolDirs(proc) = {RunIntervalDir(Program[pc].n)}

\* The second source cell searches its interval directory, two levels down.
C9_Witness ==
    /\ At("glob")
    /\ Program[pc].n = 2
    /\ Len(cwd) = 2
    /\ cwd[1] # cwd[2]

==========================================================================
